---- MODULE Spec2Model ----
(***************************************************************************)
(* Upload session coordinator of capacitor-tus-client (Android).           *)
(*                                                                         *)
(* CapacitorTusClientPlugin keeps a registry of CapacitorTusClientRunnable *)
(* sessions (executorsMap) and a fixed thread pool.  Each session drives   *)
(* the tus-java-client engine (TusClient / TusUploader) in makeAttempt and *)
(* reports through plugin.triggerListener.  Byte counts are in MiB.        *)
(***************************************************************************)
EXTENDS Integers, Sequences, FiniteSets, TLC

\* ------------------------------------------------------------- bounds
MaxUploads == 2
PoolSize == 2
MaxSubmits == 2
MaxRetries == 1
SourceSize == 6
CustomChunkSize == 3
OtherChunkSize == 2

\* CapacitorTusClientConfig.chunkSize = 6 * 1024 * 1024
DefaultChunkSize == 6

Max(a, b) == IF a >= b THEN a ELSE b
Ids == 1..Max(MaxUploads, PoolSize + 1)
NoId == 0
CmdIds == {NoId} \cup Ids
Workers == 1..PoolSize
NoTask == 0
NoUploader == [offset |-> -1, chunkSize |-> 0]

Min(a, b) == IF a <= b THEN a ELSE b

\* ------------------------------------------------------------- inputs
\* options of an upload call; chunkSize is {} when the option is absent
\* metadata is a map from keys to strings; size tells whether
\* inputStream.available() answers ("known") or throws ("unknown")
NoMetadata == [k \in {} |-> ""]
BaseOptions ==
  [present |-> TRUE, uri |-> "content", endpoint |-> "https", stream |-> "open", chunkSize |-> {},
   metadata |-> NoMetadata, size |-> "known"]
NoOptions ==
  [present |-> FALSE, uri |-> "null", endpoint |-> "null", stream |-> "null", chunkSize |-> {},
   metadata |-> NoMetadata, size |-> "known"]
ChunkSizeOptions == {{}, {0}, {CustomChunkSize}, {OtherChunkSize}}
MetadataOptions ==
  { NoMetadata,
    [k \in {"title"} |-> "holiday"],
    [k \in {"title", "filename"} |-> IF k = "title" THEN "holiday" ELSE "mine.mp4"] }
SizeOptions == {"known", "unknown"}
GoodOptions ==
  {[BaseOptions EXCEPT !.chunkSize = c, !.metadata = md, !.size = z] :
     c \in ChunkSizeOptions, md \in MetadataOptions, z \in SizeOptions}
BadOptions ==
  {NoOptions}
    \cup {[BaseOptions EXCEPT !.uri = u] : u \in {"null", "empty"}}
    \cup {[BaseOptions EXCEPT !.endpoint = e, !.chunkSize = {CustomChunkSize}] :
            e \in {"null", "empty", "malformed"}}
    \cup {[BaseOptions EXCEPT !.stream = s] : s \in {"null", "throws"}}
UploadOptions == GoodOptions \cup BadOptions

\* The runs explored.  Shared: several sessions share one pool thread and the
\* configuration.  Sized: the same, every chunk size option offered, left to
\* run without pause, resume or abort.  Resubmit: one session that resume may
\* submit again.  Retry: one session whose
\* engine calls may fail and whose failed attempt TusExecutor.makeAttempts
\* retries.  Saturated: one upload more than the pool has threads, left to run.
\* Twice: one session that pause and resume act on, and that resume may
\* submit again while the pool has a second thread.  Described: one session, every metadata option offered,
\* the source's size known or not, engine calls may fail, and the pool may
\* run the session before upload has resolved.
Plain == [metadata |-> {NoMetadata}, sources |-> {"known"}, late |-> {FALSE}]
Scenario(uploads, workers, submits, retries, failures, commands, sizes, inputs) ==
  [uploads |-> uploads, workers |-> workers, submits |-> submits, retries |-> retries,
   failures |-> failures, commands |-> commands, sizes |-> sizes,
   metadata |-> inputs.metadata, sources |-> inputs.sources, late |-> inputs.late]
Commands == {"pause", "resume", "abort"}
Scenarios ==
  { Scenario(MaxUploads, 1, 1, 0, FALSE, Commands, {{}}, Plain),
    Scenario(MaxUploads, 1, 1, 0, FALSE, {}, ChunkSizeOptions, Plain),
    Scenario(1, 1, MaxSubmits, 0, FALSE, Commands, {{}, {CustomChunkSize}}, Plain),
    Scenario(1, 1, 1, MaxRetries, TRUE, Commands, {{}, {CustomChunkSize}}, Plain),
    Scenario(PoolSize + 1, PoolSize, 1, 0, FALSE, {}, {{}}, Plain),
    Scenario(1, PoolSize, MaxSubmits, 0, FALSE, {"pause", "resume"}, {{}}, Plain),
    Scenario(1, 1, 1, 0, TRUE, {}, {{}},
             [metadata |-> MetadataOptions, sources |-> SizeOptions, late |-> BOOLEAN]) }

VARIABLES
  limits,         \* the scenario: how far this run may go
  upload,         \* CapacitorTusClientRunnable.upload (TusUpload): size and metadata
  executorsMap,   \* keys of CapacitorTusClientPlugin.executorsMap
  isRunning,      \* CapacitorTusClientRunnable.isRunning, per session
  isPaused,       \* CapacitorTusClientRunnable.isPaused
  shouldFinish,   \* CapacitorTusClientRunnable.shouldFinish
  uploader,       \* CapacitorTusClientRunnable.uploader (offset, chunk size)
  chunkSize,      \* CapacitorTusClientConfig.getInstance().chunkSize
  queue,          \* tasks submitted to pool and not yet taken by a thread
  worker,         \* pool threads: the session each runs and where it is in run()
  engine,         \* TusClient and server: stored upload URLs, server offsets, closed streams
  events,         \* what triggerListener emitted, per uploadId
  lastCall,       \* how the last plugin call was answered
  hist,           \* per session: what was asked of it so far
  ios,            \* the iOS implementation: its TUSClient, stored and running uploads
  instance        \* how many CapacitorTusClientConfig objects were created

vars ==
  <<limits, upload, executorsMap, isRunning, isPaused, shouldFinish, uploader, chunkSize, queue,
    worker, engine, events, lastCall, hist, ios, instance>>

sessionVars == <<isRunning, isPaused, shouldFinish, uploader>>

IdleWorker == [task |-> NoTask, pc |-> "idle", attempt |-> 0]

NoUpload == [size |-> 0, metadata |-> NoMetadata]

NoHist ==
  [customChunkSize |-> 0, metadata |-> NoMetadata, chunkSizesUsed |-> {}, commanded |-> FALSE, unpaired |-> FALSE,
   engineFailed |-> FALSE, abortedQueued |-> FALSE, submits |-> 0,
   pausedSends |-> 0, sentAfterAbort |-> FALSE, reported |-> {}]

\* the plugin after load(): no session, the default chunk size, an idle pool
\* iOS: tusClient is nil, nothing is stored, nothing is transferred
NoClient ==
  [tusClient |-> FALSE, stored |-> {}, running |-> {}, detached |-> {},
   uploaded |-> [i \in Ids |-> 0], call |-> [op |-> "none", result |-> "resolved"]]

Fresh ==
  /\ upload = [i \in Ids |-> NoUpload]
  /\ executorsMap = {}
  /\ isRunning = [i \in Ids |-> FALSE]
  /\ isPaused = [i \in Ids |-> FALSE]
  /\ shouldFinish = [i \in Ids |-> FALSE]
  /\ uploader = [i \in Ids |-> NoUploader]
  /\ chunkSize = DefaultChunkSize
  /\ queue = <<>>
  /\ worker = [w \in Workers |-> IdleWorker]
  /\ engine = [stored |-> {}, offset |-> [i \in Ids |-> 0], closed |-> {}]
  /\ events = [i \in Ids |-> <<>>]
  /\ lastCall = [op |-> "none", result |-> "resolved"]
  /\ hist = [i \in Ids |-> NoHist]
  /\ ios = NoClient
  /\ instance = 0

Init == limits \in Scenarios /\ Fresh

\* ------------------------------------------------------------- helpers
\* the results of a floating point division by zero
NaN == -1
Infinity == -2

\* ((double) bytesUploaded / totalBytes) * 100, in whole percent
Percent(bytes, totalBytes) ==
  IF totalBytes # 0 THEN (100 * bytes) \div totalBytes
  ELSE IF bytes = 0 THEN NaN ELSE Infinity

\* the payload of an event; only onProgress carries progress, bytesUploaded
\* and totalBytes; every event carries upload.getMetadata() as context
Event(id, type, bytes) ==
  [type |-> type, bytesUploaded |-> bytes, totalBytes |-> upload[id].size,
   progress |-> Percent(bytes, upload[id].size), context |-> upload[id].metadata]

\* plugin.triggerListener(event, data)
triggerListener(id, type, bytes) ==
  events' = [events EXCEPT ![id] = Append(@, Event(id, type, bytes))]

\* CapacitorTusClientRunnable.isRunning()
isRunningAndNotPaused(running, paused) == running /\ ~paused

KnownId_NullCheckOnly(id) == id # NoId

\* uploadId == null || !executorsMap.containsKey(uploadId)
KnownId(id) == id # NoId /\ id \in executorsMap

ValidURL_AcceptsEmpty(endpoint) == endpoint \in {"https", "empty"}

\* new URL(endpoint) in the session's constructor
ValidURL(endpoint) == endpoint = "https"

\* customChunkSize != null && customChunkSize > 0
OverridesChunkSize(custom) == custom # {} /\ \A c \in custom : c > 0

\* call.resolve(...) / call.reject(message)
Answered(op, message) ==
  lastCall' = [op |-> op, result |-> IF message = "" THEN "resolved" ELSE "rejected"]

\* plugin methods run one at a time on the bridge's plugin thread; an upload
\* that has submitted its session and not yet resolved keeps the thread
PluginIdle == lastCall.result # "resolving"

Submit_RejectsWhenBusy(id) ==
  queue' = IF \E w \in Workers : worker[w].pc = "idle" THEN Append(queue, id) ELSE queue

\* pool.submit(executor)
Submit(id) ==
  /\ queue' = Append(queue, id)

Record(id, f(_)) == hist' = [hist EXCEPT ![id] = f(@)]

\* ------------------------------------------------------------- plugin calls
\* getFileName(context, uri): the source's display name
FileName == "display.mp4"

Put_DropsOthers(map, key, value) == [k \in {key} |-> value]

\* Map.put(key, value)
Put(map, key, value) ==
  [k \in DOMAIN map \cup {key} |-> IF k = key THEN value ELSE map[k]]

\* the session's constructor: upload.setSize(inputStream.available()) unless
\* that throws; metadata.put("filename", fileName); upload.setMetadata(metadata)
NewUpload(o) ==
  [size |-> IF o.size = "known" THEN SourceSize ELSE 0,
   metadata |-> Put(o.metadata, "filename", FileName)]

UploadRejection_SizeFatal(o) ==
  IF ~o.present THEN "Missing options for the upload."
  ELSE IF o.uri \in {"null", "empty"} THEN "The 'uri' provided is null or empty."
  ELSE IF o.endpoint = "null" THEN "Missing endpoint in options."
  ELSE IF o.stream = "throws" THEN "Error creating upload"
  ELSE IF o.stream = "null" THEN "Unable to open file stream for the Uri."
  ELSE IF ~ValidURL(o.endpoint) THEN "Error creating upload"
  ELSE IF o.size = "unknown" THEN "Error creating upload"
  ELSE ""

\* CapacitorTusClientPlugin.upload: the reject message, "" when the call goes through
UploadRejection(o) ==
  IF ~o.present THEN "Missing options for the upload."
  ELSE IF o.uri \in {"null", "empty"} THEN "The 'uri' provided is null or empty."
  ELSE IF o.endpoint = "null" THEN "Missing endpoint in options."
  ELSE IF o.stream = "throws" THEN "Error creating upload"
  ELSE IF o.stream = "null" THEN "Unable to open file stream for the Uri."
  ELSE IF ~ValidURL(o.endpoint) THEN "Error creating upload"
  ELSE ""

\* config.setChunkSize(customChunkSize) is reached once uri and endpoint are present
ReachesConfig(o) == o.present /\ o.uri \notin {"null", "empty"} /\ o.endpoint # "null"

\* the chunk size an upload call asks for, 0 when it asks for the default
Requested(custom) ==
  IF OverridesChunkSize(custom) THEN CHOOSE c \in custom : TRUE ELSE 0

getInstance_New == instance' = instance + 1

\* CapacitorTusClientConfig.getInstance(): if (instance == null) instance = new ...
getInstance == instance' = IF instance = 0 THEN 1 ELSE instance

randomUUID_Reused == Max(1, Cardinality(executorsMap))

\* UUID.randomUUID(): an id that no session has
randomUUID == Cardinality(executorsMap) + 1

Upload(o) ==
  LET id == randomUUID
      msg == UploadRejection(o)
  IN  /\ PluginIdle
      /\ chunkSize' =
           IF ReachesConfig(o) /\ OverridesChunkSize(o.chunkSize)
           THEN CHOOSE c \in o.chunkSize : TRUE
           ELSE chunkSize
      /\ IF msg # ""
         THEN /\ Answered("upload", msg)
              /\ UNCHANGED <<upload, executorsMap, queue, hist>>
         ELSE /\ id <= limits.uploads
              /\ o.chunkSize \in limits.sizes
              /\ o.metadata \in limits.metadata
              /\ o.size \in limits.sources
              /\ upload' = [upload EXCEPT ![id] = NewUpload(o)]
              /\ executorsMap' = executorsMap \cup {id}
              /\ IF ~isRunningAndNotPaused(isRunning[id], isPaused[id])
                 THEN Submit(id)
                 ELSE UNCHANGED queue
              /\ Record(id, LAMBDA h :
                   [h EXCEPT !.customChunkSize = Requested(o.chunkSize),
                             !.metadata = o.metadata,
                             !.submits = 1])
              /\ \E late \in limits.late :
                   IF late
                   THEN lastCall' = [op |-> "upload", result |-> "resolving"]
                   ELSE Answered("upload", "")
      /\ IF ReachesConfig(o) THEN getInstance ELSE UNCHANGED instance
      /\ UNCHANGED <<limits, ios, sessionVars, worker, engine, events>>

\* upload, after pool.submit: result.put("uploadId", uploadId); call.resolve(result)
UploadResolve ==
  /\ lastCall = [op |-> "upload", result |-> "resolving"]
  /\ Answered("upload", "")
  /\ UNCHANGED <<limits, ios, instance, upload, executorsMap, sessionVars, chunkSize, queue, worker, engine,
                 events, hist>>

pause_Toggles(id) == isPaused' = [isPaused EXCEPT ![id] = ~@]

\* CapacitorTusClientRunnable.pause(): isPaused = true
pause(id) == isPaused' = [isPaused EXCEPT ![id] = TRUE]

resume_All(id) == isPaused' = [i \in Ids |-> FALSE]

\* CapacitorTusClientRunnable.resume(): isPaused = false
resume(id) == isPaused' = [isPaused EXCEPT ![id] = FALSE]

\* CapacitorTusClientPlugin.pause -> CapacitorTusClientRunnable.pause
Pause(id) ==
  /\ PluginIdle
  /\ IF ~KnownId(id)
     THEN /\ Answered("pause", "Invalid or missing uploadId")
          /\ UNCHANGED <<limits, ios, instance, upload, executorsMap, sessionVars, chunkSize, queue, worker, engine, events, hist>>
     ELSE /\ "pause" \in limits.commands
          /\ pause(id)
          /\ Record(id, LAMBDA h : [h EXCEPT !.commanded = TRUE])
          /\ Answered("pause", "")
          /\ UNCHANGED <<limits, ios, instance, upload, executorsMap, isRunning, shouldFinish, uploader, chunkSize, queue,
                         worker, engine, events>>

\* resume: executor.resume(); if (!executor.isRunning()) pool.submit(executor)
ResumeSubmits(id) == ~isRunningAndNotPaused(isRunning[id], FALSE)

\* CapacitorTusClientPlugin.resume -> CapacitorTusClientRunnable.resume, then submit
Resume(id) ==
  /\ PluginIdle
  /\ IF ~KnownId(id)
     THEN /\ Answered("resume", "Invalid or missing uploadId")
          /\ UNCHANGED <<limits, ios, instance, upload, executorsMap, sessionVars, chunkSize, queue, worker, engine, events, hist>>
     ELSE LET submits == ResumeSubmits(id)
          IN  /\ "resume" \in limits.commands
              /\ submits => hist[id].submits < limits.submits
              /\ resume(id)
              /\ IF submits THEN Submit(id) ELSE UNCHANGED queue
              /\ Record(id, LAMBDA h :
                   [h EXCEPT !.commanded = TRUE,
                             !.unpaired = @ \/ ~isPaused[id],
                             !.pausedSends = 0,
                             !.submits = IF submits THEN @ + 1 ELSE @])
              /\ Answered("resume", "")
              /\ UNCHANGED <<limits, ios, instance, upload, executorsMap, isRunning, shouldFinish, uploader, chunkSize,
                             worker, engine, events>>

\* a worker has not yet entered run() for the session
NotBegun(id) == ~isRunning[id] /\ events[id] = <<>>

\* ------------------------------------------------------------- engine
\* TusUploader.finish(): the request is completed, so the server has every
\* byte sent; a complete upload is forgotten by the URL store; the source
\* stream is closed
Finished(e, id, offset) ==
  [stored |-> IF offset = upload[id].size THEN e.stored \ {id} ELSE e.stored,
   offset |-> [e.offset EXCEPT ![id] = offset],
   closed |-> e.closed \cup {id}]

\* the offsets the server may report for a stored upload: what it has for
\* certain, or that and the bytes of the request still open
HeadOffsets(e, id, u) ==
  {e.offset[id]} \cup (IF u = NoUploader THEN {} ELSE {u.offset})

\* TusClient.resumeOrCreateUpload: resume at the server's offset when the URL
\* store knows the fingerprint, create a new upload at offset 0 otherwise
ResumeOffsets(e, id, u) ==
  IF id \in e.stored THEN HeadOffsets(e, id, u) ELSE {0}

Resumed(e, id, offset) ==
  [e EXCEPT !.stored = @ \cup {id}, !.offset[id] = offset]

finish_Toggles(id) == shouldFinish' = [shouldFinish EXCEPT ![id] = ~@]

\* CapacitorTusClientRunnable.finish() of a running session: shouldFinish = true
finish(id) == shouldFinish' = [shouldFinish EXCEPT ![id] = TRUE]

\* CapacitorTusClientPlugin.abort -> CapacitorTusClientRunnable.finish
Abort(id) ==
  /\ PluginIdle
  /\ IF ~KnownId(id)
     THEN /\ Answered("abort", "Invalid or missing uploadId")
          /\ UNCHANGED <<limits, ios, instance, upload, executorsMap, sessionVars, chunkSize, queue, worker, engine, events, hist>>
     ELSE \E ok \in BOOLEAN :
            /\ "abort" \in limits.commands
            /\ IF isRunning[id]
               THEN /\ ok
                    /\ finish(id)
                    /\ UNCHANGED engine
               ELSE IF uploader[id] # NoUploader
               THEN /\ engine' = IF ok THEN Finished(engine, id, uploader[id].offset) ELSE engine
                    /\ UNCHANGED shouldFinish
               ELSE /\ ok
                    /\ UNCHANGED <<shouldFinish, engine>>
            /\ Record(id, LAMBDA h :
                 [h EXCEPT !.commanded = TRUE,
                           !.unpaired = TRUE,
                           !.pausedSends = 0,
                           !.abortedQueued = @ \/ (ok /\ NotBegun(id))])
            /\ Answered("abort", IF ok THEN "" ELSE "Error aborting upload")
            /\ UNCHANGED <<limits, ios, instance, upload, executorsMap, isRunning, isPaused, uploader, chunkSize, queue,
                           worker, events>>

\* ------------------------------------------------------------- pool threads
At(w, pc) == worker[w].task # NoTask /\ worker[w].pc = pc
Goto(w, pc) == worker' = [worker EXCEPT ![w].pc = pc]

Take_FromPauseWait(w) ==
  /\ w <= limits.workers
  /\ worker[w].pc \in {"idle", "wait"}
  /\ queue # <<>>
  /\ worker' = [worker EXCEPT ![w] = [task |-> Head(queue), pc |-> "run", attempt |-> 0]]
  /\ queue' = Tail(queue)
  /\ UNCHANGED <<limits, ios, instance, upload, executorsMap, sessionVars, chunkSize, engine, events, lastCall, hist>>

\* a pool thread takes the next submitted task
Take(w) ==
  /\ w <= limits.workers
  /\ worker[w].pc = "idle"
  /\ queue # <<>>
  /\ worker' = [worker EXCEPT ![w] = [task |-> Head(queue), pc |-> "run", attempt |-> 0]]
  /\ queue' = Tail(queue)
  /\ UNCHANGED <<limits, ios, instance, upload, executorsMap, sessionVars, chunkSize, engine, events, lastCall, hist>>

RunStart_Silent(w) ==
  LET id == worker[w].task
  IN  /\ At(w, "run")
      /\ isRunning' = [isRunning EXCEPT ![id] = TRUE]
      /\ Goto(w, "attempt")
      /\ UNCHANGED <<limits, ios, instance, upload, executorsMap, isPaused, shouldFinish, uploader, chunkSize, queue,
                     engine, events, lastCall, hist>>

\* run(): isRunning = true; onStart
RunStart(w) ==
  LET id == worker[w].task
  IN  /\ At(w, "run")
      /\ isRunning' = [isRunning EXCEPT ![id] = TRUE]
      /\ triggerListener(id, "onStart", 0)
      /\ Goto(w, "attempt")
      /\ UNCHANGED <<limits, ios, instance, upload, executorsMap, isPaused, shouldFinish, uploader, chunkSize, queue,
                     engine, lastCall, hist>>

Thrown_KeepsTrying(w, retry) ==
  /\ worker' = [worker EXCEPT ![w].pc = "attempt",
                              ![w].attempt = IF retry THEN @ + 1 ELSE @]
  /\ UNCHANGED <<isRunning, events>>

\* makeAttempt() threw.  TusExecutor.makeAttempts makes another attempt; or
\* run() catches the exception: onError; isRunning = false
Thrown(w, retry) ==
  LET id == worker[w].task
  IN  IF retry
      THEN /\ worker' = [worker EXCEPT ![w].pc = "attempt", ![w].attempt = @ + 1]
           /\ UNCHANGED <<isRunning, events>>
      ELSE /\ triggerListener(id, "onError", 0)
           /\ isRunning' = [isRunning EXCEPT ![id] = FALSE]
           /\ worker' = [worker EXCEPT ![w] = IdleWorker]

\* an IOException is retried while attempts are left
Retries(w) == worker[w].attempt < limits.retries

\* makeAttempt(): client.resumeOrCreateUpload(upload); uploader.setChunkSize(config).
\* A new TusUploader seeks in the source stream, which throws once it is closed.
ResumeOrCreate(w) ==
  LET id == worker[w].task
  IN  /\ At(w, "attempt")
      /\ IF id \in engine.closed
         THEN /\ Thrown(w, Retries(w))
              /\ engine' = Resumed(engine, id, engine.offset[id])
              /\ UNCHANGED <<uploader, instance>>
         ELSE \E offset \in ResumeOffsets(engine, id, uploader[id]) :
                /\ engine' = Resumed(engine, id, offset)
                /\ uploader' = [uploader EXCEPT ![id] = [offset |-> offset, chunkSize |-> chunkSize]]
                /\ getInstance
                /\ Goto(w, "wait")
                /\ UNCHANGED <<isRunning, events>>
      /\ UNCHANGED <<limits, ios, upload, executorsMap, isPaused, shouldFinish, chunkSize, queue, lastCall, hist>>

\* while (isPaused && !shouldFinish) sleep
Parked(id) == isPaused[id] /\ ~shouldFinish[id]

\* loop head: past the pause wait, getOffset(), onProgress
Progress(w) ==
  LET id == worker[w].task
  IN  /\ At(w, "wait")
      /\ ~Parked(id)
      /\ triggerListener(id, "onProgress", uploader[id].offset)
      /\ Record(id, LAMBDA h : [h EXCEPT !.reported = @ \cup {uploader[id].offset}])
      /\ Goto(w, "chunk")
      /\ UNCHANGED <<limits, ios, instance, upload, executorsMap, sessionVars, chunkSize, queue, engine, lastCall>>

ChunkBytes_EndsEarly(u) ==
  IF u.offset + u.chunkSize >= SourceSize THEN -1 ELSE u.chunkSize

\* uploader.uploadChunk(): bytes sent, -1 at the end of the source
ChunkBytes(u) ==
  IF u.offset >= SourceSize THEN -1 ELSE Min(u.chunkSize, SourceSize - u.offset)

\* while (uploader.uploadChunk() > -1 && !shouldFinish); reading a closed
\* source stream throws
UploadChunk(w) ==
  LET id == worker[w].task
      u == uploader[id]
      n == ChunkBytes(u)
  IN  /\ At(w, "chunk")
      /\ IF id \in engine.closed
         THEN /\ Thrown(w, Retries(w))
              /\ UNCHANGED <<uploader, hist>>
         ELSE /\ IF n > -1
                 THEN /\ uploader' = [uploader EXCEPT ![id].offset = u.offset + n]
                      /\ Record(id, LAMBDA h :
                           [h EXCEPT !.chunkSizesUsed = @ \cup {u.chunkSize},
                                     !.unpaired = @ \/ isPaused[id],
                                     !.pausedSends = IF Parked(id) THEN Min(@ + 1, 2) ELSE @,
                                     !.sentAfterAbort = @ \/ shouldFinish[id],
                                     !.reported = {}])
                      /\ Goto(w, IF shouldFinish[id] THEN "finish" ELSE "wait")
                 ELSE /\ Goto(w, "finish")
                      /\ UNCHANGED <<uploader, hist>>
              /\ UNCHANGED <<isRunning, events>>
      /\ UNCHANGED <<limits, ios, instance, upload, executorsMap, isPaused, shouldFinish, chunkSize, queue,
                     engine, lastCall>>

\* uploader.finish(); onSuccess; isRunning = false
Finish(w) ==
  LET id == worker[w].task
  IN  /\ At(w, "finish")
      /\ engine' = Finished(engine, id, uploader[id].offset)
      /\ triggerListener(id, "onSuccess", 0)
      /\ isRunning' = [isRunning EXCEPT ![id] = FALSE]
      /\ worker' = [worker EXCEPT ![w] = IdleWorker]
      /\ UNCHANGED <<limits, ios, instance, upload, executorsMap, isPaused, shouldFinish, uploader, chunkSize, queue,
                     lastCall, hist>>

\* an engine call fails on the network or the protocol: an IOException or a
\* ProtocolException that should be retried, or one that should not
EngineFails(w) ==
  LET id == worker[w].task
  IN  /\ worker[w].task # NoTask
      /\ worker[w].pc \in {"attempt", "chunk", "finish"}
      /\ limits.failures
      /\ Record(id, LAMBDA h : [h EXCEPT !.engineFailed = TRUE])
      /\ \E retry \in BOOLEAN :
           /\ retry => Retries(w)
           /\ Thrown(w, retry)
      /\ UNCHANGED <<limits, ios, instance, upload, executorsMap, isPaused, shouldFinish, uploader, chunkSize, queue,
                     engine, lastCall>>

Next ==
  \/ \E o \in UploadOptions : Upload(o)
  \/ UploadResolve
  \/ \E id \in CmdIds : Pause(id)
  \/ \E id \in CmdIds : Resume(id)
  \/ \E id \in CmdIds : Abort(id)
  \/ \E w \in Workers : Take(w)
  \/ \E w \in Workers : RunStart(w)
  \/ \E w \in Workers : ResumeOrCreate(w)
  \/ \E w \in Workers : Progress(w)
  \/ \E w \in Workers : UploadChunk(w)
  \/ \E w \in Workers : Finish(w)
  \/ \E w \in Workers : EngineFails(w)

Spec == Init /\ [][Next]_vars

\* The runs in which the pool's second thread meets a session submitted
\* twice.  Doubled: one session, every command, two threads.  Tripled: one
\* session that pause and resume may submit once more.
\* Covering: one session whose engine calls may fail and whose upload may
\* resolve late.
Doubled == Scenario(1, PoolSize, MaxSubmits, 0, FALSE, Commands, {{}}, Plain)
Tripled == Scenario(1, PoolSize, MaxSubmits + 1, 0, FALSE, {"pause", "resume"}, {{}}, Plain)
Covering ==
  Scenario(1, 1, 1, 0, TRUE, {}, {{}},
           [metadata |-> {NoMetadata}, sources |-> {"known"}, late |-> BOOLEAN])
DoubledScenarios == {Doubled, Tripled, Covering}

\* a step of pool thread w in which every engine call returns
Step(w) ==
  \/ Take(w)
  \/ RunStart(w)
  \/ ResumeOrCreate(w)
  \/ Progress(w)
  \/ UploadChunk(w)
  \/ Finish(w)

\* every pool thread keeps running
Running == \A w \in Workers : WF_vars(Step(w))

LiveSpec == Spec /\ Running

DoubledInit == limits \in DoubledScenarios /\ Fresh

DoubledSpec == DoubledInit /\ [][Next]_vars /\ Running

\* ------------------------------------------------------------- iOS
\* the Android side of the state, which the iOS implementation does not have
android ==
  <<limits, instance, upload, executorsMap, sessionVars, chunkSize, queue, worker, engine, events, lastCall, hist>>

\* call.resolve(...) / call.reject(message) of the iOS implementation
IosAnswered(i, op, message) ==
  [i EXCEPT !.call = [op |-> op, result |-> IF message = "" THEN "resolved" ELSE "rejected"]]

\* the uploads being transferred, by the plugin's client or by one it replaced
Transferring(i) == i.running \cup i.detached

\* the ids uploadFileAt has handed out
IosUsed(i) == {u \in Ids : i.uploaded[u] > 0 \/ u \in i.stored}

\* upload: tusClient = try TUSClient(...) replaces the plugin's client; the
\* uploads of the replaced client go on without the plugin, or stop, or are
\* taken up from the shared storage directory by the new client's start();
\* uploadFileAt stores the new upload and the new client transfers it
IosUpload(valid) ==
  LET id == Cardinality(IosUsed(ios)) + 1
  IN  /\ IF ~valid
         THEN ios' = IosAnswered(ios, "upload", "Invalid or missing parameter.")
         ELSE /\ id <= MaxUploads
              /\ \E left \in SUBSET Transferring(ios) :
                   \E taken \in SUBSET (ios.stored \ left) :
                     ios' = IosAnswered([ios EXCEPT !.tusClient = TRUE,
                                                    !.stored = @ \cup {id},
                                                    !.running = taken \cup {id},
                                                    !.detached = left], "upload", "")
      /\ UNCHANGED android

\* pause: tusClient.stopAndCancelAll(), then the lookup of the id among
\* getStoredUploads()
IosPause(id) ==
  /\ IF id = NoId
     THEN ios' = IosAnswered(ios, "pause", "Invalid or missing 'uploadId' parameter.")
     ELSE IF ~ios.tusClient
     THEN ios' = IosAnswered(ios, "pause", "'TUSClient' is not initialized.")
     ELSE ios' = IosAnswered([ios EXCEPT !.running = {}], "pause",
                             IF id \in ios.stored THEN "" ELSE "Upload not found for the provided ID.")
  /\ UNCHANGED android

\* resume: tusClient.resume(id:) is true when the client takes the stored
\* upload up again
IosResume(id) ==
  /\ IF id = NoId
     THEN ios' = IosAnswered(ios, "resume", "Invalid or missing 'uploadId' parameter.")
     ELSE IF ~ios.tusClient
     THEN ios' = IosAnswered(ios, "resume", "'TUSClient' is not initialized.")
     ELSE IF id \in ios.stored /\ id \notin Transferring(ios)
     THEN ios' = IosAnswered([ios EXCEPT !.running = @ \cup {id}], "resume", "")
     ELSE ios' = IosAnswered(ios, "resume", "Resuming the upload failed.")
  /\ UNCHANGED android

\* abort: tusClient.cancel(id:) cancels the client's task of that upload
IosAbort(id) ==
  /\ IF id = NoId
     THEN ios' = IosAnswered(ios, "abort", "Invalid or missing 'uploadId' parameter.")
     ELSE IF ~ios.tusClient
     THEN ios' = IosAnswered(ios, "abort", "'TUSClient' is not initialized.")
     ELSE ios' = IosAnswered([ios EXCEPT !.running = @ \ {id}], "abort", "")
  /\ UNCHANGED android

\* a client sends the next chunk of an upload it is transferring; a complete
\* upload leaves the store
IosTransfer(id) ==
  LET bytes == Min(ios.uploaded[id] + CustomChunkSize, SourceSize)
  IN  /\ id \in Transferring(ios)
      /\ ios' = IF bytes < SourceSize
                THEN [ios EXCEPT !.uploaded[id] = bytes]
                ELSE [ios EXCEPT !.uploaded[id] = bytes,
                                 !.stored = @ \ {id},
                                 !.running = @ \ {id},
                                 !.detached = @ \ {id}]
      /\ UNCHANGED android

IosInit == limits = Covering /\ Fresh

IosNext ==
  \/ \E valid \in BOOLEAN : IosUpload(valid)
  \/ \E id \in CmdIds : IosPause(id)
  \/ \E id \in CmdIds : IosResume(id)
  \/ \E id \in CmdIds : IosAbort(id)
  \/ \E id \in Ids : IosTransfer(id)

IosSpec == IosInit /\ [][IosNext]_vars

\* an idle pool thread takes a waiting task
FairSpec == Spec /\ WF_vars(\E w \in Workers : Take(w))

\* ------------------------------------------------------------- event streams
Terminal == {"onSuccess", "onError"}
Count(s, types) == Cardinality({i \in 1..Len(s) : s[i].type \in types})
ProgressOf(s) == SelectSeq(s, LAMBDA e : e.type = "onProgress")

\* onStart first and only first, a terminal event last and only last
WellOrdered(s) ==
  \A i \in 1..Len(s) :
    /\ (s[i].type = "onStart") <=> (i = 1)
    /\ (s[i].type \in Terminal) => (i = Len(s))

\* C1: the events of every uploadId are one onStart, then onProgress events,
\* then at most one terminal event, and nothing after the terminal event.
C1_EventOrder == \A id \in Ids : WellOrdered(events[id])

\* C2: a session that was only ever paused and immediately resumed (no chunk
\* sent while paused, no other command) and whose engine calls all succeeded
\* has no onError and no second onStart.
C2_PauseResumeHarmless ==
  \A id \in executorsMap :
    (~hist[id].unpaired /\ ~hist[id].engineFailed) =>
      /\ Count(events[id], {"onStart"}) <= 1
      /\ Count(events[id], {"onError"}) = 0

\* ------------------------------------------------------------- rejected calls
Untouched == UNCHANGED <<executorsMap, sessionVars, queue, worker, events>>

\* C3: pause, resume or abort with a missing uploadId or one that is no key of
\* the registry is rejected, emits no event, submits nothing and leaves the
\* registry and every session's flags as they were.
C3_UnknownIdRejected ==
  [][\A id \in CmdIds :
       ((id = NoId \/ id \notin executorsMap) /\ lastCall'.op # "upload"
          /\ (Pause(id) \/ Resume(id) \/ Abort(id)))
         => (lastCall'.result = "rejected" /\ Untouched)]_vars

\* a resume was rejected (only an unknown uploadId does that) while a session is transferring
C3_Witness ==
  /\ lastCall = [op |-> "resume", result |-> "rejected"]
  /\ \E w \in Workers : At(w, "chunk")

Idle(w) == w <= limits.workers /\ worker[w].pc = "idle"
Executing(id) == \E w \in Workers : worker[w].task = id
NextInLine(id) == queue # <<>> /\ Head(queue) = id

\* an upload that was accepted resolves: call.resolve is done, or it is the
\* next thing the plugin thread does
Accepts == lastCall'.result \in {"resolved", "resolving"}
OnlyResolves ==
  (lastCall.result = "resolving" /\ lastCall' # lastCall)
    => lastCall' = [op |-> "upload", result |-> "resolved"]

\* C5: an upload call with valid options resolves and is queued whatever the
\* pool is doing, and the session next in line starts executing once a pool
\* thread is free.
C5_SaturationQueues ==
  /\ [][\A o \in GoodOptions :
          (lastCall'.op = "upload" /\ Upload(o)) =>
             /\ Accepts
             /\ Len(queue') = Len(queue) + 1
             /\ UNCHANGED worker]_vars
  /\ [][OnlyResolves]_vars
  /\ \A id \in Ids : (NextInLine(id) /\ \E w \in Workers : Idle(w)) ~> Executing(id)

\* every pool thread is inside a transfer loop, each on its own session, and
\* one more upload has been accepted and waits in the queue
C5_Witness ==
  /\ limits.workers = PoolSize
  /\ \A w \in Workers : worker[w].pc \in {"wait", "chunk"}
  /\ \A v, w \in Workers : v # w => worker[v].task # worker[w].task
  /\ queue # <<>>
  /\ ~Executing(Head(queue))
  /\ lastCall = [op |-> "upload", result |-> "resolved"]

\* ------------------------------------------------------------- chunk size
\* C6: a session whose upload call asked for chunk size c > 0 sends every
\* chunk with chunk size c.
C6_OwnChunkSize ==
  \A id \in executorsMap :
    hist[id].customChunkSize > 0 => hist[id].chunkSizesUsed \subseteq {hist[id].customChunkSize}

\* C7: a session whose upload call gave no chunk size (or one <= 0) sends
\* every chunk with the default chunk size.
C7_DefaultChunkSize ==
  \A id \in executorsMap :
    hist[id].customChunkSize = 0 => hist[id].chunkSizesUsed \subseteq {DefaultChunkSize}

\* C8: a session aborted before a worker began executing it never sends a chunk.
C8_AbortedBeforeStartSendsNothing ==
  \A id \in executorsMap : hist[id].abortedQueued => hist[id].chunkSizesUsed = {}

\* ------------------------------------------------------------- progress
\* C9: the bytesUploaded values of the successive onProgress events of an
\* uploadId never decrease.
C9_ProgressMonotone ==
  \A id \in Ids :
    LET ps == ProgressOf(events[id])
    IN  \A i, j \in 1..Len(ps) : i < j => ps[i].bytesUploaded <= ps[j].bytesUploaded

\* a session that got no pause, resume or abort and met no engine error
Undisturbed(id) == ~hist[id].commanded /\ ~hist[id].engineFailed

\* C10: with the chunk size c dividing the source size T, an undisturbed
\* session reports bytesUploaded 0, c, 2c, ... in this order, each with
\* progress 100 * bytesUploaded / T, never onError, and onSuccess only as the
\* last event, after the report of T bytes (100%).
C10_ProgressSteps ==
  \A id \in executorsMap :
    LET u == uploader[id]
        ev == events[id]
        ps == ProgressOf(ev)
    IN  (Undisturbed(id) /\ upload[id].size = SourceSize
           /\ (u # NoUploader => SourceSize % u.chunkSize = 0)) =>
          /\ Count(ev, {"onError"}) = 0
          /\ u = NoUploader => ps = <<>>
          /\ \A i \in 1..Len(ps) :
               /\ ps[i].bytesUploaded = (i - 1) * u.chunkSize
               /\ ps[i].progress = (100 * (i - 1) * u.chunkSize) \div SourceSize
          /\ Count(ev, {"onSuccess"}) > 0 =>
               /\ ev[Len(ev)].type = "onSuccess"
               /\ Len(ps) = (SourceSize \div u.chunkSize) + 1
               /\ ps[Len(ps)].bytesUploaded = SourceSize
               /\ ps[Len(ps)].progress = 100

\* an undisturbed session with two chunks to send has succeeded
C10_Witness ==
  \E id \in executorsMap :
    /\ Undisturbed(id)
    /\ uploader[id] # NoUploader
    /\ uploader[id].chunkSize = CustomChunkSize
    /\ SourceSize % CustomChunkSize = 0 /\ SourceSize > CustomChunkSize
    /\ Count(events[id], {"onSuccess"}) = 1
    /\ Len(ProgressOf(events[id])) = (SourceSize \div CustomChunkSize) + 1

\* ------------------------------------------------------------- commands
Ended(id) == Count(events[id], Terminal) > 0

\* C11: once a session has emitted onSuccess or onError, a pause, resume or
\* abort on it submits nothing to the pool and makes no engine call.
C11_TerminalStays ==
  [][\A id \in Ids :
       (id \in executorsMap /\ Ended(id) /\ lastCall'.op # "upload"
          /\ (Pause(id) \/ Resume(id) \/ Abort(id)))
         => UNCHANGED <<queue, engine>>]_vars

\* C12: pause on a known id always resolves, sets that session's paused flag
\* and changes nothing else; on a session already paused it changes nothing.
C12_PauseSafe ==
  [][\A id \in Ids :
       (id \in executorsMap /\ lastCall'.op = "pause" /\ Pause(id)) =>
          /\ lastCall'.result = "resolved"
          /\ isPaused' = [isPaused EXCEPT ![id] = TRUE]
          /\ isPaused[id] => UNCHANGED isPaused
          /\ UNCHANGED <<executorsMap, isRunning, shouldFinish, uploader, chunkSize, queue,
                         worker, engine, events>>]_vars

\* a pause was answered and a session that has ended is paused
C12_Witness ==
  /\ lastCall = [op |-> "pause", result |-> "resolved"]
  /\ \E id \in executorsMap : isPaused[id] /\ Ended(id) /\ ~isRunning[id]

\* C13: abort on a running session sets shouldFinish, makes no engine call and
\* resolves; abort on a session that is not running finalizes with the engine
\* (which closes the source stream) whenever it resolves, emits nothing, and
\* is rejected when the finalize fails.
C13_AbortFinalizes ==
  [][\A id \in Ids :
       (id \in executorsMap /\ lastCall'.op = "abort" /\ Abort(id)) =>
          IF isRunning[id]
          THEN /\ lastCall'.result = "resolved"
               /\ shouldFinish'[id]
               /\ UNCHANGED engine
          ELSE /\ lastCall'.result = "resolved" => id \in engine'.closed
               /\ UNCHANGED <<shouldFinish, events>>]_vars

\* a pool thread sits in the pause wait of the session
ParkedWorker(id) == \E w \in Workers : At(w, "wait") /\ worker[w].task = id /\ Parked(id)

\* C14: resume on a known id clears the paused flag and submits the session
\* exactly when it is not active afterwards; while a pool thread is parked
\* in the session's pause wait, a resume is one that submits nothing, and it
\* leaves that thread in its loop, free to go on.
C14_ResumeSubmits ==
  /\ [][\A id \in Ids :
          (id \in executorsMap /\ lastCall'.op = "resume" /\ Resume(id)) =>
             /\ ~isPaused'[id]
             /\ IF isRunningAndNotPaused(isRunning'[id], isPaused'[id])
                THEN UNCHANGED queue
                ELSE queue' = Append(queue, id)
             /\ ParkedWorker(id) => (UNCHANGED worker /\ ~Parked(id)')]_vars
  /\ [](\A id \in executorsMap : ParkedWorker(id) => ~ResumeSubmits(id))

\* C15: the isRunning field of a session is true exactly while a pool thread
\* is inside run() for it, so isRunning() is true exactly when a thread is
\* inside run() and the session is not paused.
Inside(id) ==
  \E w \in Workers : worker[w].task = id /\ worker[w].pc \in {"attempt", "wait", "chunk", "finish"}

C15_ActiveIffExecuting ==
  \A id \in executorsMap :
    /\ isRunning[id] <=> Inside(id)
    /\ isRunningAndNotPaused(isRunning[id], isPaused[id]) <=> (Inside(id) /\ ~isPaused[id])

\* ------------------------------------------------------------- metadata
\* C16: the session metadata has a filename entry; it is the caller's own
\* value when the caller's metadata has a filename key, and the source's
\* display name otherwise.
C16_FilenameKept ==
  \A id \in executorsMap :
    LET given == hist[id].metadata
        kept == upload[id].metadata
    IN  /\ "filename" \in DOMAIN kept
        /\ kept["filename"] = IF "filename" \in DOMAIN given THEN given["filename"] ELSE FileName

\* the caller's entries other than filename are in the map, unchanged, and
\* the map has no other key but filename
Echoes(context, given) ==
  /\ DOMAIN context = DOMAIN given \cup {"filename"}
  /\ \A k \in DOMAIN given \ {"filename"} : context[k] = given[k]

\* C20, as the code has it: every event of a session carries the same
\* context, the session's metadata: the entries the caller supplied under
\* keys other than filename, unchanged, and a filename entry.
C20_ContextFromMetadata ==
  \A id \in executorsMap :
    \A i \in 1..Len(events[id]) :
      /\ events[id][i].context = upload[id].metadata
      /\ Echoes(events[id][i].context, hist[id].metadata)

\* a session created with a title and a filename has emitted onStart,
\* onProgress and a terminal event
C20_Witness ==
  \E id \in executorsMap :
    /\ DOMAIN hist[id].metadata = {"title", "filename"}
    /\ Count(events[id], {"onStart"}) > 0
    /\ Count(events[id], {"onProgress"}) > 0
    /\ Ended(id)

\* C20: every event of a session carries as context the metadata the caller
\* supplied at creation, unchanged.
C20_ContextEchoed ==
  \A id \in executorsMap :
    \A i \in 1..Len(events[id]) : events[id][i].context = hist[id].metadata

\* ------------------------------------------------------------- engine errors
\* a step of pool thread w in which an engine call throws
Throws(w) ==
  \/ EngineFails(w)
  \/ worker[w].task \in engine.closed /\ (ResumeOrCreate(w) \/ UploadChunk(w))

OnError(id) == Event(id, "onError", 0)

\* C17: an exception raised by an engine call ends the execution at once
\* with onError for that uploadId, and the upload caller hears nothing of it.
C17_SingleAttempt ==
  [][\A w \in Workers :
       (worker[w].task # NoTask /\ Throws(w)) =>
          LET id == worker[w].task
          IN  /\ worker'[w] = IdleWorker
              /\ events'[id] = Append(events[id], OnError(id))
              /\ UNCHANGED lastCall]_vars

\* C17, as the code has it: an exception raised by an engine call is never
\* reported to a caller; while the executor has attempts left it may start
\* another attempt in the same execution, without an event; otherwise the
\* execution ends at once with onError for that uploadId and isRunning false.
C17_AttemptsThenError ==
  [][\A w \in Workers :
       (worker[w].task # NoTask /\ Throws(w)) =>
          LET id == worker[w].task
          IN  /\ UNCHANGED lastCall
              /\ \/ /\ worker[w].attempt < limits.retries
                    /\ worker'[w] = [task |-> id, pc |-> "attempt", attempt |-> worker[w].attempt + 1]
                    /\ UNCHANGED <<events, isRunning>>
                 \/ /\ worker'[w] = IdleWorker
                    /\ events'[id] = Append(events[id], OnError(id))
                    /\ ~isRunning'[id]]_vars

\* an attempt failed, the executor made another one, and that one failed
\* for good: two reports of the first offset, then onError
C17_Witness ==
  \E id \in executorsMap :
    /\ hist[id].engineFailed
    /\ Count(events[id], {"onStart"}) = 1
    /\ Len(ProgressOf(events[id])) >= 2
    /\ \A i \in 1..Len(ProgressOf(events[id])) : ProgressOf(events[id])[i].bytesUploaded = 0
    /\ events[id][Len(events[id])].type = "onError"

\* ------------------------------------------------------------- pool slots
PoolThreads == {w \in Workers : w <= limits.workers}
AllParked == \A w \in PoolThreads : At(w, "wait") /\ Parked(worker[w].task)

\* C18: never more sessions in execution than the pool has threads; a thread
\* parked in the pause wait stays with its session while the session stays
\* paused and not aborted; and while every thread of the pool is parked, no
\* queued session is taken.
C18_PausedKeepsSlot ==
  /\ [](Cardinality({id \in Ids : Executing(id)}) <= limits.workers)
  /\ [][\A w \in Workers :
          (At(w, "wait") /\ Parked(worker[w].task) /\ Parked(worker[w].task)')
            => worker'[w] = worker[w]]_vars
  /\ [][AllParked => (Len(queue') >= Len(queue) /\ UNCHANGED worker)]_vars

\* every thread of the pool is parked in a pause wait and a session waits
C18_Witness ==
  /\ AllParked
  /\ queue # <<>>
  /\ ~Executing(Head(queue))
  /\ Head(queue) \in executorsMap

\* ------------------------------------------------------------- source stream
\* C19: an upload whose source size cannot be determined (and that is valid
\* otherwise) resolves, registers a new session and submits it; an upload
\* whose source stream cannot be opened is rejected and creates nothing.
C19_SizeUnknownStreamFatal ==
  [][/\ OnlyResolves
     /\ \A o \in UploadOptions :
          (lastCall'.op = "upload" /\ Upload(o)) =>
             /\ (o \in GoodOptions /\ o.size = "unknown") =>
                   /\ Accepts
                   /\ Cardinality(executorsMap') = Cardinality(executorsMap) + 1
                   /\ \E id \in executorsMap' \ executorsMap : queue' = Append(queue, id)
             /\ (o.present /\ o.stream \in {"null", "throws"}) =>
                   /\ lastCall'.result = "rejected"
                   /\ Untouched]_vars

\* a session whose size is unknown was created and has started
C19_Witness ==
  \E id \in executorsMap :
    /\ upload[id].size = 0
    /\ Count(events[id], {"onStart"}) = 1

\* ------------------------------------------------------------- submissions
Occurrences(q, id) == Cardinality({i \in 1..Len(q) : q[i] = id})
Holders(id) == {w \in Workers : worker[w].task = id}

\* C21: a session is never in the pool more than once: queued or being
\* executed, by at most one pool thread.
C21_SingleSubmission ==
  \A id \in Ids : Occurrences(queue, id) + Cardinality(Holders(id)) <= 1

\* the session the upload call in progress has created
Newest == Cardinality(executorsMap)

\* C22: while the upload call that created a session has not resolved, no
\* event has been emitted for that session.
C22_NoEventBeforeResolve ==
  lastCall.result = "resolving" => events[Newest] = <<>>

\* C23: after pause(id) has returned for a running session, at most one more
\* chunk send is started for it before the next resume(id) or abort(id).
C23_PauseAtNextCheck == \A id \in Ids : hist[id].pausedSends <= 1

\* an engine call made by pool thread w: create/resume with its offset
\* query, a chunk send, or finalize
EngineCall(w) == ResumeOrCreate(w) \/ UploadChunk(w) \/ Finish(w) \/ EngineFails(w)

\* C24: while a session is Paused (paused flag set, shouldFinish not set) no
\* engine call is made for it, also when it was paused before its worker
\* began executing it.
C24_PausedIsSilent ==
  [][\A w \in Workers :
       (worker[w].task # NoTask /\ Parked(worker[w].task)) => ~EngineCall(w)]_vars

\* C25: once abort(id) has set shouldFinish, the loop sends no further chunk
\* of the session and goes straight to the engine's finalize.
C25_NoChunkAfterAbort == \A id \in Ids : ~hist[id].sentAfterAbort

\* C28: every chunk a session ever sends has the one chunk size it read when
\* its transfer started, across engine attempts and re-executions and
\* whatever later upload calls set.
C28_ChunkSizeFixed == \A id \in Ids : Cardinality(hist[id].chunkSizesUsed) <= 1

\* a pool thread has entered run() of the session at least once
Started(id) == Count(events[id], {"onStart"}) > 0

\* C29: a session whose paused flag is true has previously been started;
\* paused together with not-started is unreachable.
C29_PausedWasStarted == \A id \in Ids : isPaused[id] => Started(id)

\* C30: in each execution of a session onStart is emitted before the first
\* engine call of that execution: every execution that has reached its
\* engine calls, and every one that has ended, has emitted its own onStart.
C30_StartBeforeEngine ==
  \A id \in Ids :
    Count(events[id], {"onStart"}) =
      Count(events[id], Terminal) + Cardinality(Holders(id) \ {w \in Workers : worker[w].pc = "run"})
C30_Witness ==
  \E w \in Workers :
    /\ At(w, "wait")
    /\ uploader[worker[w].task] # NoUploader
    /\ Len(events[worker[w].task]) = 1
    /\ events[worker[w].task][1].type = "onStart"

\* pool thread w returns from run()
Leaves(w) == worker[w].task # NoTask /\ worker'[w].task = NoTask

\* C26: an abort on a session that a pool thread is executing, running or
\* parked in the pause wait, asks that execution to finish; with every engine
\* call returning the execution then leaves its loop and its pool thread,
\* emitting exactly one terminal event as it goes, so a paused session does
\* not stay parked after the abort.
C26_AbortEnds ==
  /\ [][\A id \in Ids :
          (Inside(id) /\ Abort(id) /\ lastCall' = [op |-> "abort", result |-> "resolved"]) =>
             shouldFinish'[id]]_vars
  /\ [][\A w \in Workers :
          Leaves(w) =>
             /\ Len(events'[worker[w].task]) = Len(events[worker[w].task]) + 1
             /\ events'[worker[w].task][Len(events'[worker[w].task])].type \in Terminal]_vars
  /\ \A id \in Ids : (Inside(id) /\ shouldFinish[id]) ~> ~Executing(id)

\* C27: a resume on a session whose pool thread is parked in the pause wait
\* submits nothing to the pool and emits nothing, and with no further pause
\* that same thread leaves the wait and goes on to its next chunk send.
C27_ResumeContinues ==
  /\ [][\A id \in Ids :
          (ParkedWorker(id) /\ Resume(id) /\ lastCall' = [op |-> "resume", result |-> "resolved"]) =>
             UNCHANGED <<queue, events>>]_vars
  /\ \A id \in Ids, w \in Workers :
       (At(w, "wait") /\ worker[w].task = id /\ ~isPaused[id]) ~>
          ((At(w, "chunk") /\ worker[w].task = id) \/ isPaused[id])

\* pool thread w sends a chunk of session id
Sends(w, id) == worker[w].task = id /\ UploadChunk(w) /\ uploader'[id] # uploader[id]

\* C31: every chunk send of a session is preceded, with no other chunk send
\* of that session in between, by an onProgress event of that session whose
\* bytesUploaded is the engine's offset just before the send.
C31_ProgressBeforeSend ==
  [][\A id \in Ids, w \in Workers :
       Sends(w, id) => uploader[id].offset \in hist[id].reported]_vars

\* an upload call goes through: the plugin thread, free before the step,
\* resolves an upload or is about to
Registers ==
  /\ PluginIdle
  /\ lastCall'.op = "upload"
  /\ Accepts
  /\ UNCHANGED worker

\* C32: the registry only grows: an upload call that goes through adds one
\* entry under an id no session had, no other step adds, replaces or removes
\* an entry, and a registered id stays known, so pause and resume on it are
\* resolved, also after the session has ended.
C32_RegistryGrows ==
  [][/\ IF Registers
        THEN /\ randomUUID \notin executorsMap
             /\ executorsMap' = executorsMap \cup {randomUUID}
        ELSE executorsMap' = executorsMap
     /\ \A id \in executorsMap :
          /\ upload'[id] = upload[id]
          /\ KnownId(id)'
          /\ (Pause(id) \/ Resume(id)) => lastCall'.result = "resolved"]_vars
C32_Witness ==
  /\ Cardinality(executorsMap) = MaxUploads
  /\ \E id \in executorsMap :
       /\ Ended(id)
       /\ ~Executing(id)
       /\ isPaused[id]
       /\ lastCall = [op |-> "pause", result |-> "resolved"]

\* C33: on iOS a pause stops only the upload with the id it was given, every
\* other upload that is being transferred stays so, and a rejected pause
\* stops nothing.
C33_IosPauseStopsOne ==
  [][\A id \in CmdIds :
       IosPause(id) =>
          /\ Transferring(ios) \ {id} \subseteq Transferring(ios')
          /\ ios'.call.result = "rejected" => Transferring(ios') = Transferring(ios)]_vars

\* what a command can reach of a session: its flags and its events
Session(id) == <<isPaused[id], shouldFinish[id], isRunning[id], events[id]>>

\* C34: pause(id), resume(id) and abort(id) change only session id: the
\* paused, shouldFinish and isRunning flags of every other session and the
\* events of every other uploadId are what they were before the command.
C34_CommandsAreLocal ==
  [][\A id \in CmdIds :
       (Pause(id) \/ Resume(id) \/ Abort(id)) =>
          \A other \in Ids \ {id} : Session(other)' = Session(other)]_vars
C34_Witness ==
  /\ lastCall = [op |-> "resume", result |-> "resolved"]
  /\ \E id \in executorsMap, other \in executorsMap :
       /\ id # other
       /\ hist[id].commanded
       /\ ~isPaused[id]
       /\ isPaused[other]

\* C35: onSuccess is emitted for a session only when its transfer was
\* complete: at the finalize that is followed by onSuccess the engine has no
\* data left to send, so a loop left because of an abort ends without it.
C35_SuccessMeansComplete ==
  [][\A w \in Workers :
       (At(w, "finish") /\ Finish(w)) => ChunkBytes(uploader[worker[w].task]) = -1]_vars

\* an upload call is rejected
Rejects ==
  /\ PluginIdle
  /\ lastCall' = [op |-> "upload", result |-> "rejected"]
  /\ UNCHANGED worker

\* C36: an upload call that is rejected leaves the process-wide chunk size
\* as it was.
C36_RejectedKeepsChunkSize == [][Rejects => chunkSize' = chunkSize]_vars

\* C37: at most one CapacitorTusClientConfig is ever created: the first
\* upload call that reaches the configuration creates it on the plugin
\* thread before any session exists, so every getInstance() of a pool
\* thread finds it.
C37_OneConfig ==
  /\ instance <= 1
  /\ (executorsMap # {} \/ queue # <<>> \/ \E w \in Workers : worker[w].task # NoTask) => instance = 1
C37_Witness ==
  /\ instance = 1
  /\ Cardinality(executorsMap) = MaxUploads
  /\ \E w \in Workers : At(w, "wait") /\ uploader[worker[w].task] # NoUploader

\* C38: shouldFinish is false until the session is created, goes from false
\* to true only by an abort on a session whose isRunning is set, and is never
\* cleared; so an execution that finds it set goes from its first chunk send
\* on to finalize, never to another send.
C38_ShouldFinishMonotone ==
  /\ \A id \in Ids \ executorsMap : ~shouldFinish[id]
  /\ [][\A id \in Ids :
          /\ shouldFinish[id] => shouldFinish'[id]
          /\ (~shouldFinish[id] /\ shouldFinish'[id]) =>
                (isRunning[id] /\ Abort(id) /\ lastCall' = [op |-> "abort", result |-> "resolved"])]_vars
  /\ [][\A w \in Workers :
          (At(w, "chunk") /\ shouldFinish[worker[w].task] /\ UploadChunk(w)) =>
             worker'[w].pc # "wait"]_vars
\* a second execution of an aborted session has started, after a resume
\* submitted it again, and the flag is still set
C38_Witness ==
  \E w \in Workers :
    /\ At(w, "attempt")
    /\ shouldFinish[worker[w].task]
    /\ ~isPaused[worker[w].task]
    /\ Ended(worker[w].task)
    /\ Count(events[worker[w].task], {"onStart"}) = 2
    /\ hist[worker[w].task].sentAfterAbort

============================================================================
